---- MODULE Spec2Model ----
(***************************************************************************)
(* league-client-connector (src/src/lib.rs): get_path locates the League   *)
(* installation directory from the process table, parse_lockfile reads and *)
(* parses <dir>/lockfile into a RiotLockFile.                              *)
(*                                                                         *)
(* Text is modelled as a sequence of one-character strings, so that split, *)
(* integer parsing, the regular expression, trim and Base64 are computed   *)
(* character by character as the code and its libraries compute them.      *)
(***************************************************************************)
EXTENDS Integers, Sequences, FiniteSets, TLC

VARIABLES
    os,         \* std::env::consts::OS
    pc,         \* where the running call or test stands
    entry,      \* the function or test that was entered
    call,       \* in the equality test: how many calls have returned
    raw_info,   \* get_path: the decoded output of the external commands
    cmds,       \* the external commands the current call has started
    path,       \* parse_lockfile: the directory get_path returned
    contents,   \* parse_lockfile: the text read from the lockfile
    result,     \* what the call returned, or the panic it ended in
    lockfile1,  \* equality test: the first descriptor
    lockfile2,  \* equality test: the second descriptor
    text1,      \* equality test: the text the first call read
    text2,      \* equality test: the text the second call read
    file1,      \* unit tests: the first built descriptor
    file2       \* unit tests: the second built descriptor

vars == <<os, pc, entry, call, raw_info, cmds, path, contents, result,
          lockfile1, lockfile2, text1, text2, file1, file2>>

(***************************************************************************)
(* Bounds of the model                                                     *)
(***************************************************************************)
\* most ':'-separated segments in a modelled lockfile
MaxSegs == 6
\* most chunks concatenated into a modelled process listing
MaxChunks == 4

(***************************************************************************)
(* Characters                                                              *)
(***************************************************************************)
\* the printable ASCII characters, code 32 (space) to 126, in code order
\* (GRAVE stands for the backquote, code 96)
Printable == <<" ", "!", "\"", "#", "$", "%", "&", "'", "(", ")", "*", "+", ",", "-", ".", "/", "0", "1", "2", "3", "4", "5", "6", "7", "8", "9", ":", ";", "<", "=", ">", "?", "@", "A", "B", "C", "D", "E", "F", "G", "H", "I", "J", "K", "L", "M", "N", "O", "P", "Q", "R", "S", "T", "U", "V", "W", "X", "Y", "Z", "[", "\\", "]", "^", "_", "GRAVE", "a", "b", "c", "d", "e", "f", "g", "h", "i", "j", "k", "l", "m", "n", "o", "p", "q", "r", "s", "t", "u", "v", "w", "x", "y", "z", "{", "|", "}", "~">>

IndexOf(seq, c) == CHOOSE i \in 1..Len(seq) : seq[i] = c

\* str.as_bytes(): the UTF-8 byte of an ASCII character ("\n" is byte 10)
Byte(c) == IF c = "\n" THEN 10 ELSE 31 + IndexOf(Printable, c)

as_bytes(s) == [i \in 1..Len(s) |-> Byte(s[i])]

Digits == <<"0", "1", "2", "3", "4", "5", "6", "7", "8", "9">>

IsDigit(c) == \E i \in 1..10 : Digits[i] = c

\* char::to_digit(10) of a decimal digit
to_digit(c) == IndexOf(Digits, c) - 1

IsUpper(c) == Byte(c) >= 65 /\ Byte(c) <= 90

IsLower(c) == Byte(c) >= 97 /\ Byte(c) <= 122

\* [[:alnum:]]
IsAlnum(c) == IsDigit(c) \/ IsUpper(c) \/ IsLower(c)

\* [[:space:]], and char::is_whitespace on the ASCII range
IsSpace(c) == c \in {" ", "\n"}

(***************************************************************************)
(* Result<T, LeagueConnectorError>, and a panic that unwinds out of a call *)
(***************************************************************************)
NoValue == <<>>

NoResult == [kind |-> "None", err |-> "", name |-> "", val |-> NoValue]

Ok(v) == [kind |-> "Ok", err |-> "", name |-> "", val |-> v]

\* LeagueConnectorError: the variant, and the name field of NumberParse
Err(e, n) == [kind |-> "Err", err |-> e, name |-> n, val |-> NoValue]

\* unimplemented!() and an out-of-bounds index unwind; no Result is returned
Panic(m) == [kind |-> "Panic", err |-> m, name |-> "", val |-> NoValue]

(***************************************************************************)
(* str::split(":")                                                         *)
(***************************************************************************)
RECURSIVE SplitFrom(_, _, _)
\* the segments of s from position i on, cur being the segment under way
SplitFrom(s, i, cur) ==
    IF i > Len(s) THEN <<cur>>
    ELSE IF s[i] = ":" THEN <<cur>> \o SplitFrom(s, i + 1, <<>>)
    ELSE SplitFrom(s, i + 1, Append(cur, s[i]))

RECURSIVE SplitNFrom(_, _, _, _)
SplitNFrom(s, i, cur, n) ==
    IF i > Len(s) THEN <<cur>>
    ELSE IF s[i] = ":" /\ n > 1
         THEN <<cur>> \o SplitNFrom(s, i + 1, <<>>, n - 1)
    ELSE SplitNFrom(s, i + 1, Append(cur, s[i]), n)

\* a variant: splitn(5, ":"), the fifth segment taking the rest of the text
split_n5(s) == SplitNFrom(s, 1, <<>>, 5)

split(s) == SplitFrom(s, 1, <<>>)

(***************************************************************************)
(* <u32 as FromStr>::from_str                                              *)
(***************************************************************************)
\* u32::MAX = 4294967295 = 10 * U32MaxDiv10 + U32MaxMod10
\* (the overflow tests are made on the quotient and the last digit, so that no
\* intermediate value leaves the range of the integers TLC computes with; the
\* sample numerals below are under 2^31 or over u32::MAX)
U32MaxDiv10 == 429496729
U32MaxMod10 == 5

RECURSIVE ParseDigits(_, _, _)
\* result = result.checked_mul(10)?.checked_add(digit)? over the digits
ParseDigits(s, i, acc) ==
    IF i > Len(s) THEN [ok |-> TRUE, val |-> acc]
    ELSE IF ~IsDigit(s[i]) THEN [ok |-> FALSE, val |-> 0]
    ELSE IF acc > U32MaxDiv10 THEN [ok |-> FALSE, val |-> 0]
    ELSE IF acc = U32MaxDiv10 /\ to_digit(s[i]) > U32MaxMod10
         THEN [ok |-> FALSE, val |-> 0]
    ELSE ParseDigits(s, i + 1, acc * 10 + to_digit(s[i]))

\* a variant: no sign is skipped, so a leading plus is an invalid digit
parse_u32_nosign(s) ==
    IF Len(s) = 0 THEN [ok |-> FALSE, val |-> 0]
    ELSE ParseDigits(s, 1, 0)

\* empty -> Empty; a lone sign -> InvalidDigit; a leading plus is skipped,
\* a leading minus is not (u32 is unsigned) and is then an invalid digit
parse_u32(s) ==
    IF Len(s) = 0 THEN [ok |-> FALSE, val |-> 0]
    ELSE IF Len(s) = 1 /\ s[1] \in {"+", "-"} THEN [ok |-> FALSE, val |-> 0]
    ELSE IF s[1] = "+" THEN ParseDigits(s, 2, 0)
    ELSE ParseDigits(s, 1, 0)

(***************************************************************************)
(* base64::encode (standard alphabet, with padding)                        *)
(***************************************************************************)
B64Alphabet == <<"A", "B", "C", "D", "E", "F", "G", "H", "I", "J", "K", "L", "M", "N", "O", "P", "Q", "R", "S", "T", "U", "V", "W", "X", "Y", "Z", "a", "b", "c", "d", "e", "f", "g", "h", "i", "j", "k", "l", "m", "n", "o", "p", "q", "r", "s", "t", "u", "v", "w", "x", "y", "z", "0", "1", "2", "3", "4", "5", "6", "7", "8", "9", "+", "/">>

Sextet(n) == B64Alphabet[n + 1]

RECURSIVE EncodeFrom(_, _)
EncodeFrom(b, i) ==
    LET n == Len(b) - i + 1 IN
    IF n <= 0 THEN <<>>
    ELSE IF n = 1 THEN
        <<Sextet(b[i] \div 4), Sextet((b[i] % 4) * 16), "=", "=">>
    ELSE IF n = 2 THEN
        <<Sextet(b[i] \div 4),
          Sextet((b[i] % 4) * 16 + (b[i + 1] \div 16)),
          Sextet((b[i + 1] % 16) * 4), "=">>
    ELSE
        <<Sextet(b[i] \div 4),
          Sextet((b[i] % 4) * 16 + (b[i + 1] \div 16)),
          Sextet((b[i + 1] % 16) * 4 + (b[i + 2] \div 64)),
          Sextet(b[i + 2] % 64)>> \o EncodeFrom(b, i + 3)

encode(bytes) == EncodeFrom(bytes, 1)

(***************************************************************************)
(* RiotLockFile and the body of parse_lockfile after the file is read      *)
(***************************************************************************)
Riot == <<"r", "i", "o", "t">>

Localhost == <<"1", "2", "7", ".", "0", ".", "0", ".", "1">>

\* struct RiotLockFile
RiotLockFile(process, pid, port, password, protocol, username, address, b64_auth) ==
    [process |-> process, pid |-> pid, port |-> port, password |-> password,
     protocol |-> protocol, username |-> username, address |-> address,
     b64_auth |-> b64_auth]

\* a variant: an equality that leaves the derived token out
RiotLockFile_eq_noauth(a, b) ==
    /\ a.process = b.process
    /\ a.pid = b.pid
    /\ a.port = b.port
    /\ a.password = b.password
    /\ a.protocol = b.protocol
    /\ a.username = b.username
    /\ a.address = b.address

\* #[derive(PartialEq)]: the fields compared one by one, all of them
RiotLockFile_eq(a, b) ==
    /\ a.process = b.process
    /\ a.pid = b.pid
    /\ a.port = b.port
    /\ a.password = b.password
    /\ a.protocol = b.protocol
    /\ a.username = b.username
    /\ a.address = b.address
    /\ a.b64_auth = b.b64_auth

\* a variant: the two joined without the colon
format_auth_nocolon(username, password) == username \o password

\* format!("{}:{}", username, password)
format_auth(username, password) == username \o <<":">> \o password

\* a variant: the context of the pid line copied to the port line
number_parse_pid(field, name) ==
    LET r == parse_u32(field) IN
    IF r.ok THEN Ok(r.val) ELSE Err("NumberParse", "pid")

\* field.parse().context(NumberParse { name })
number_parse(field, name) ==
    LET r == parse_u32(field) IN
    IF r.ok THEN Ok(r.val) ELSE Err("NumberParse", name)

\* pieces[i] of the Rust source is pieces[i + 1] here; indexing past the end
\* of the Vec panics
parse_pieces(text) ==
    LET pieces == split(text)
        n == Len(pieces)
        username == Riot
        address == Localhost
    IN  IF n < 2 THEN Panic("index out of bounds")
        ELSE LET pid == number_parse(pieces[2], "pid") IN
        IF pid.kind # "Ok" THEN pid
        ELSE IF n < 3 THEN Panic("index out of bounds")
        ELSE LET port == number_parse(pieces[3], "port") IN
        IF port.kind # "Ok" THEN port
        ELSE IF n < 5 THEN Panic("index out of bounds")
        ELSE LET process == pieces[1]
                 password == pieces[4]
                 protocol == pieces[5]
                 b64_auth == encode(as_bytes(format_auth(username, password)))
             IN  Ok(RiotLockFile(process, pid.val, port.val, password,
                                 protocol, username, address, b64_auth))

(***************************************************************************)
(* get_path: the regular expression                                        *)
(*   --install-directory=(?P<dir>[[:alnum:][:space:]:\./\\]+)              *)
(* and str::trim                                                           *)
(***************************************************************************)
Marker == <<"-", "-", "i", "n", "s", "t", "a", "l", "l", "-", "d", "i", "r", "e", "c", "t", "o", "r", "y", "=">>

\* the bracket class of the dir group
InDirClass(c) == IsAlnum(c) \/ IsSpace(c) \/ c \in {":", ".", "/", "\\"}

\* the literal prefix matches at position i of s
MarkerAt(s, i) ==
    /\ i + Len(Marker) - 1 <= Len(s)
    /\ \A k \in 1..Len(Marker) : s[i + k - 1] = Marker[k]

\* the whole pattern matches at i: the marker, then at least one class char
MatchAt(s, i) ==
    /\ MarkerAt(s, i)
    /\ i + Len(Marker) <= Len(s)
    /\ InDirClass(s[i + Len(Marker)])

RECURSIVE RunEnd(_, _)
\* the greedy +: the last position of the run of class chars starting at i
RunEnd(s, i) ==
    IF i + 1 <= Len(s) /\ InDirClass(s[i + 1]) THEN RunEnd(s, i + 1) ELSE i

\* Regex::captures: the leftmost match; caps["dir"], or none
captures(s) ==
    IF \E i \in 1..Len(s) : MatchAt(s, i)
    THEN LET i == CHOOSE j \in 1..Len(s) :
                      MatchAt(s, j) /\ \A k \in 1..(j - 1) : ~MatchAt(s, k)
             from == i + Len(Marker)
         IN  [some |-> TRUE, dir |-> SubSeq(s, from, RunEnd(s, from))]
    ELSE [some |-> FALSE, dir |-> <<>>]

RECURSIVE trim_start(_)
trim_start(s) ==
    IF Len(s) > 0 /\ IsSpace(Head(s)) THEN trim_start(Tail(s)) ELSE s

RECURSIVE trim_end(_)
trim_end(s) ==
    IF Len(s) > 0 /\ IsSpace(s[Len(s)])
    THEN trim_end(SubSeq(s, 1, Len(s) - 1)) ELSE s

trim(s) == trim_end(trim_start(s))

\* get_path from the raw text on (the pattern is a constant that compiles,
\* so RegexParse does not arise)
extract_path(raw) ==
    LET caps == captures(raw) IN
    IF ~caps.some THEN Err("NoInstallationPath", "")
    ELSE Ok(trim(caps.dir))

(***************************************************************************)
(* The external commands                                                   *)
(***************************************************************************)
\* a command that was started, and its exit status (Unreaped: never waited)
Unreaped == -1

Started(cmd, status) == [cmd |-> cmd, status |-> status]

\* a variant: a failure exit status of WMIC reported as GetRawPath
get_raw_league_info_in_windows_checked(e) ==
    IF ~e.spawn THEN [res |-> Err("GetRawPath", ""), cmds |-> <<>>]
    ELSE IF e.status # 0
         THEN [res |-> Err("GetRawPath", ""),
               cmds |-> <<Started("WMIC", e.status)>>]
    ELSE IF ~e.utf8
         THEN [res |-> Err("Utf8Parse", ""),
               cmds |-> <<Started("WMIC", e.status)>>]
    ELSE [res |-> Ok(e.stdout), cmds |-> <<Started("WMIC", e.status)>>]

\* Command::new("WMIC")...output(): the exit status is in the Output and is
\* not looked at
get_raw_league_info_in_windows(e) ==
    IF ~e.spawn THEN [res |-> Err("GetRawPath", ""), cmds |-> <<>>]
    ELSE IF ~e.utf8
         THEN [res |-> Err("Utf8Parse", ""),
               cmds |-> <<Started("WMIC", e.status)>>]
    ELSE [res |-> Ok(e.stdout), cmds |-> <<Started("WMIC", e.status)>>]

\* ps x -o args | grep LeagueClientUx
get_raw_league_info_in_macos(e) ==
    IF ~e.ps_spawn THEN [res |-> Err("GetRawPath", ""), cmds |-> <<>>]
    ELSE IF ~e.ps_stdout
         THEN [res |-> Err("EmptyStdout", ""),
               cmds |-> <<Started("ps", Unreaped)>>]
    ELSE IF ~e.grep_spawn
         THEN [res |-> Err("GetRawPath", ""),
               cmds |-> <<Started("ps", Unreaped)>>]
    ELSE IF ~e.grep_wait
         THEN [res |-> Err("GetRawPath", ""),
               cmds |-> <<Started("ps", Unreaped), Started("grep", Unreaped)>>]
    ELSE IF ~e.ps_wait
         THEN [res |-> Err("GetRawPath", ""),
               cmds |-> <<Started("ps", Unreaped),
                          Started("grep", e.grep_status)>>]
    ELSE IF ~e.utf8
         THEN [res |-> Err("Utf8Parse", ""),
               cmds |-> <<Started("ps", e.ps_status),
                          Started("grep", e.grep_status)>>]
    ELSE [res |-> Ok(e.stdout),
          cmds |-> <<Started("ps", e.ps_status),
                     Started("grep", e.grep_status)>>]

(***************************************************************************)
(* The environment: what the operating system may hand to a call           *)
(***************************************************************************)
OSes == {"windows", "macos", "linux"}

WinDir == <<"C", ":", "\\", "R", "i", "o", "t", " ", "G", "a", "m", "e", "s", "\\", "L", "e", "a", "g", "u", "e", " ", "o", "f", " ", "L", "e", "g", "e", "n", "d", "s">>

\* pieces of a process listing: the marker, a directory, a blank, a quote
Chunks == {Marker, WinDir, <<" ">>, <<"\"">>}

RECURSIVE ChunkTexts(_)
ChunkTexts(n) ==
    IF n = 0 THEN {<<>>}
    ELSE {c \o t : c \in Chunks, t \in ChunkTexts(n - 1)}

RawTexts == UNION {ChunkTexts(n) : n \in 0..MaxChunks}

ExitStatuses == {0, 1}

WmicEnvs ==
    [spawn : BOOLEAN, status : ExitStatuses, utf8 : BOOLEAN, stdout : RawTexts]

\* grep exits 0 when it selected a line, 1 when it selected none, 2 on error
GrepStatuses == {0, 1, 2}

MacEnvs ==
    {e \in [ps_spawn : BOOLEAN, ps_stdout : BOOLEAN, ps_wait : BOOLEAN,
            ps_status : ExitStatuses, grep_spawn : BOOLEAN,
            grep_wait : BOOLEAN, grep_status : GrepStatuses,
            utf8 : BOOLEAN, stdout : RawTexts] :
        /\ e.grep_status = 0 => e.stdout # <<>>
        /\ e.grep_status = 1 => e.stdout = <<>>}

\* the texts a lockfile segment is drawn from, by position
NumTexts == {<<>>, <<"0">>, <<"7">>, <<"+", "7">>, <<"x">>,
             <<"4", "2", "9", "4", "9", "6", "7", "2", "9", "6">>}

SegTexts(i) ==
    IF i = 1 THEN {<<"L">>}
    ELSE IF i \in {2, 3} THEN NumTexts
    ELSE IF i = 4 THEN {<<>>, <<"p">>, <<"p", "w">>}
    ELSE IF i = 5 THEN {<<"h", "t", "t", "p", "s">>}
    ELSE {<<>>, <<"x">>}

RECURSIVE JoinedFrom(_, _)
\* the texts of segments i..n joined by ':'
JoinedFrom(i, n) ==
    IF i = n THEN SegTexts(i)
    ELSE {s \o <<":">> \o t : s \in SegTexts(i), t \in JoinedFrom(i + 1, n)}

\* the lockfile of the documentation (its token is the one in the curl
\* example of RiotLockFile)
DocLockfile == <<"L", "e", "a", "g", "u", "e", "C", "l", "i", "e", "n", "t", "U", "x", ":", "1", "2", "3", "4", ":", "5", "4", "8", "3", "5", ":", "C", "0", "D", "W", "T", "6", "V", "D", "J", "2", "H", "5", "0", "H", "F", "J", "2", "B", "E", "S", "h", "Q", ":", "h", "t", "t", "p", "s">>

DocAuth == <<"c", "m", "l", "v", "d", "D", "p", "D", "M", "E", "R", "X", "V", "D", "Z", "W", "R", "E", "o", "y", "S", "D", "U", "w", "S", "E", "Z", "K", "M", "k", "J", "F", "U", "2", "h", "R">>

\* the same client restarted: another pid, port and password
DocLockfile2 == <<"L", "e", "a", "g", "u", "e", "C", "l", "i", "e", "n", "t", "U", "x", ":", "1", "2", "3", "5", ":", "5", "4", "8", "3", "6", ":", "x", "Y", "z", ":", "h", "t", "t", "p", "s">>

\* what a running client writes
ClientLockfiles == {DocLockfile, DocLockfile2}

FileTexts ==
    {<<>>} \cup ClientLockfiles \cup UNION {JoinedFrom(1, n) : n \in 1..MaxSegs}

\* fs::read_to_string: the text, or an io::Error (missing, unreadable, ...)
FileStates ==
    {[ok |-> FALSE, text |-> <<>>]} \cup {[ok |-> TRUE, text |-> t] : t \in FileTexts}

\* the arguments of build_lockfile in the unit tests
SomeB64 == <<"s", "o", "m", "e", "_", "b", "6", "4">>

AnotherB64 == <<"a", "n", "o", "t", "h", "e", "r", "_", "b", "6", "4">>

Localhost2 == <<"1", "2", "7", ".", "0", ".", "0", ".", "2">>

\* tests::build_lockfile
build_lockfile(port, address, b64_auth) ==
    RiotLockFile(<<"1", "2", "3", "4">>, 1234, port,
                 <<"s", "o", "m", "e", "_", "p", "a", "s", "s", "w", "o", "r", "d">>,
                 <<"h", "t", "t", "p", "s">>,
                 <<"s", "o", "m", "e", "_", "u", "s", "e", "r", "n", "a", "m", "e">>,
                 address, b64_auth)

\* the four unit tests of src/lib.rs: the arguments and the assertion
UnitTests ==
    {[name |-> "lockfile_is_equal", expect_eq |-> TRUE,
      a |-> [port |-> 1337, address |-> Localhost, b64_auth |-> SomeB64],
      b |-> [port |-> 1337, address |-> Localhost, b64_auth |-> SomeB64]],
     [name |-> "lockfile_diff_port", expect_eq |-> FALSE,
      a |-> [port |-> 1337, address |-> Localhost, b64_auth |-> SomeB64],
      b |-> [port |-> 1338, address |-> Localhost, b64_auth |-> SomeB64]],
     [name |-> "lockfile_diff_address", expect_eq |-> FALSE,
      a |-> [port |-> 1337, address |-> Localhost, b64_auth |-> SomeB64],
      b |-> [port |-> 1337, address |-> Localhost2, b64_auth |-> SomeB64]],
     [name |-> "lockfile_diff_auth", expect_eq |-> FALSE,
      a |-> [port |-> 1337, address |-> Localhost, b64_auth |-> SomeB64],
      b |-> [port |-> 1337, address |-> Localhost, b64_auth |-> AnotherB64]]}

UnitTestNames == {t.name : t \in UnitTests}

(***************************************************************************)
(* The state machine                                                       *)
(***************************************************************************)
\* a descriptor variable that holds nothing yet
NoLockFile == RiotLockFile(<<>>, 0, 0, <<>>, <<>>, <<>>, <<>>, <<>>)

NotRead == [read |-> FALSE, text |-> <<>>]

Init ==
    /\ os \in OSes
    /\ pc = "idle"
    /\ entry = "none"
    /\ call = 0
    /\ raw_info = <<>>
    /\ cmds = <<>>
    /\ path = <<>>
    /\ contents = NotRead
    /\ result = NoResult
    /\ lockfile1 = NoLockFile
    /\ lockfile2 = NoLockFile
    /\ text1 = <<>>
    /\ text2 = <<>>
    /\ file1 = NoLockFile
    /\ file2 = NoLockFile

\* a caller enters get_path or parse_lockfile, or the equality test starts
Call(e) ==
    /\ pc = "idle"
    /\ pc' = "get_path"
    /\ entry' = e
    /\ UNCHANGED <<os, call, raw_info, cmds, path, contents, result,
                   lockfile1, lockfile2, text1, text2, file1, file2>>

\* get_path, match OS: the arm _ => unimplemented!()
Unsupported ==
    /\ pc = "get_path"
    /\ os \notin {"windows", "macos"}
    /\ result' = Panic("not implemented")
    /\ pc' = "done"
    /\ UNCHANGED <<os, entry, call, raw_info, cmds, path, contents,
                   lockfile1, lockfile2, text1, text2, file1, file2>>

\* the ? after get_raw_league_info_in_*: an error is returned at once
AfterRawInfo(r) ==
    /\ cmds' = r.cmds
    /\ IF r.res.kind = "Ok"
       THEN /\ raw_info' = r.res.val
            /\ pc' = "captures"
            /\ UNCHANGED result
       ELSE /\ result' = r.res
            /\ pc' = "done"
            /\ UNCHANGED raw_info
    /\ UNCHANGED <<os, entry, call, path, contents,
                   lockfile1, lockfile2, text1, text2, file1, file2>>

\* get_path, match OS: the arm "windows"
RunWindows ==
    /\ pc = "get_path"
    /\ os = "windows"
    /\ \E e \in WmicEnvs : AfterRawInfo(get_raw_league_info_in_windows(e))

\* get_path, match OS: the arm "macos"
RunMacos ==
    /\ pc = "get_path"
    /\ os = "macos"
    /\ \E e \in MacEnvs : AfterRawInfo(get_raw_league_info_in_macos(e))

\* get_path from the pattern match to its return; in parse_lockfile the ?
\* returns the error, and the path goes on to the read otherwise
Captures ==
    /\ pc = "captures"
    /\ raw_info' = <<>>
    /\ LET r == extract_path(raw_info) IN
       IF r.kind = "Ok" /\ entry # "get_path"
       THEN /\ path' = r.val
            /\ pc' = "read"
            /\ UNCHANGED result
       ELSE /\ result' = r
            /\ pc' = "done"
            /\ UNCHANGED path
    /\ UNCHANGED <<os, entry, call, cmds, contents,
                   lockfile1, lockfile2, text1, text2, file1, file2>>

\* the file states a call may find: the equality test runs beside a client,
\* which may have exited or restarted between the two calls
FileStatesOf(e) ==
    IF e = "equality"
    THEN {f \in FileStates : ~f.ok \/ f.text \in ClientLockfiles}
    ELSE FileStates

\* path.push("lockfile"), to_str (Some for a path made from a String, so
\* EmptyPath does not arise) and fs::read_to_string
ReadLockfile ==
    /\ pc = "read"
    /\ path' = <<>>
    /\ \E f \in FileStatesOf(entry) :
        IF f.ok
        THEN /\ contents' = [read |-> TRUE, text |-> f.text]
             /\ pc' = "parse"
             /\ UNCHANGED result
        ELSE /\ result' = Err("UnableToRead", "")
             /\ pc' = "done"
             /\ UNCHANGED contents
    /\ UNCHANGED <<os, entry, call, raw_info, cmds,
                   lockfile1, lockfile2, text1, text2, file1, file2>>

\* parse_lockfile from the split to its return
ParsePieces ==
    /\ pc = "parse"
    /\ result' = parse_pieces(contents.text)
    /\ pc' = "done"
    /\ UNCHANGED <<os, entry, call, raw_info, cmds, path, contents,
                   lockfile1, lockfile2, text1, text2, file1, file2>>

\* tests/lib.rs equality: let lockfile1 = parse_lockfile().unwrap(), and
\* the second call is entered; unwrap panics on an Err
Unwrap1 ==
    /\ pc = "done"
    /\ entry = "equality"
    /\ call = 0
    /\ IF result.kind = "Ok"
       THEN /\ lockfile1' = result.val
            /\ text1' = contents.text
            /\ call' = 1
            /\ pc' = "get_path"
       ELSE /\ pc' = "test_failed"
            /\ UNCHANGED <<lockfile1, text1, call>>
    /\ result' = NoResult
    /\ contents' = NotRead
    /\ cmds' = <<>>
    /\ UNCHANGED <<os, entry, raw_info, path, lockfile2, text2, file1, file2>>

\* tests/lib.rs equality: let lockfile2 = parse_lockfile().unwrap(), and
\* assert!(lockfile1 == lockfile2)
Unwrap2 ==
    /\ pc = "done"
    /\ entry = "equality"
    /\ call = 1
    /\ IF result.kind = "Ok"
       THEN /\ lockfile2' = result.val
            /\ text2' = contents.text
            /\ call' = 2
            /\ pc' = IF RiotLockFile_eq(lockfile1, result.val)
                     THEN "test_passed" ELSE "test_failed"
       ELSE /\ pc' = "test_failed"
            /\ UNCHANGED <<lockfile2, text2, call>>
    /\ result' = NoResult
    /\ contents' = NotRead
    /\ cmds' = <<>>
    /\ UNCHANGED <<os, entry, raw_info, path, lockfile1, text1, file1, file2>>

\* src/lib.rs mod tests: two descriptors are built and compared with
\* assert_eq! or assert_ne!
UnitTest ==
    /\ pc = "idle"
    /\ \E t \in UnitTests :
        LET f1 == build_lockfile(t.a.port, t.a.address, t.a.b64_auth)
            f2 == build_lockfile(t.b.port, t.b.address, t.b.b64_auth)
        IN  /\ entry' = t.name
            /\ file1' = f1
            /\ file2' = f2
            /\ pc' = IF RiotLockFile_eq(f1, f2) = t.expect_eq
                     THEN "test_passed" ELSE "test_failed"
    /\ UNCHANGED <<os, call, raw_info, cmds, path, contents, result,
                   lockfile1, lockfile2, text1, text2>>

\* the caller has the result (or the test has ended): nothing is kept
Return ==
    /\ \/ pc = "done" /\ entry # "equality"
       \/ pc \in {"test_passed", "test_failed"}
    /\ pc' = "idle"
    /\ entry' = "none"
    /\ call' = 0
    /\ raw_info' = <<>>
    /\ cmds' = <<>>
    /\ path' = <<>>
    /\ contents' = NotRead
    /\ result' = NoResult
    /\ lockfile1' = NoLockFile
    /\ lockfile2' = NoLockFile
    /\ text1' = <<>>
    /\ text2' = <<>>
    /\ file1' = NoLockFile
    /\ file2' = NoLockFile
    /\ UNCHANGED os

Next ==
    \/ Call("get_path")
    \/ Call("parse_lockfile")
    \/ Call("equality")
    \/ Unsupported
    \/ RunWindows
    \/ RunMacos
    \/ Captures
    \/ ReadLockfile
    \/ ParsePieces
    \/ Unwrap1
    \/ Unwrap2
    \/ UnitTest
    \/ Return

Spec == Init /\ [][Next]_vars

TypeOK ==
    /\ os \in OSes
    /\ pc \in {"idle", "get_path", "captures", "read", "parse", "done",
               "test_passed", "test_failed"}
    /\ call \in 0..2
    /\ result.kind \in {"None", "Ok", "Err", "Panic"}

(***************************************************************************)
(* What the properties speak of, defined apart from the code above         *)
(***************************************************************************)
\* the positions of the ':' characters of a text
ColonPos(text) == {i \in 1..Len(text) : text[i] = ":"}

\* the number of ':'-separated fields of a text
NumFields(text) == Cardinality(ColonPos(text)) + 1

\* the position of the k-th ':' of a text
NthColon(text, k) ==
    CHOOSE p \in ColonPos(text) :
        Cardinality({q \in ColonPos(text) : q < p}) = k - 1

\* the k-th field of a text, for k in 1..NumFields(text)
Field(text, k) ==
    LET from == IF k = 1 THEN 1 ELSE NthColon(text, k - 1) + 1
        to == IF k = NumFields(text) THEN Len(text)
              ELSE NthColon(text, k) - 1
    IN  SubSeq(text, from, to)

\* the text up to and without the k-th ':'
UpToField(text, k) == SubSeq(text, 1, NthColon(text, k) - 1)

U32MaxText == <<"4", "2", "9", "4", "9", "6", "7", "2", "9", "5">>

\* a, b of equal length: a is not after b in dictionary order
LexLeq(a, b) ==
    \/ a = b
    \/ \E i \in 1..Len(a) :
        /\ \A j \in 1..(i - 1) : a[j] = b[j]
        /\ to_digit(a[i]) < to_digit(b[i])

\* the digits of a numeral: an optional leading plus sign set aside
DigitsOf(f) == IF Len(f) > 0 /\ f[1] = "+" THEN Tail(f) ELSE f

\* the digits with the leading zeros set aside
Significant(d) ==
    LET nz == {i \in 1..Len(d) : d[i] # "0"} IN
    IF nz = {} THEN <<>>
    ELSE SubSeq(d, CHOOSE i \in nz : \A j \in nz : i <= j, Len(d))

\* a decimal numeral of an unsigned 32-bit integer
ValidU32Text(f) ==
    LET d == DigitsOf(f) IN
    /\ Len(d) > 0
    /\ \A i \in 1..Len(d) : IsDigit(d[i])
    /\ \/ Len(Significant(d)) < Len(U32MaxText)
       \/ /\ Len(Significant(d)) = Len(U32MaxText)
          /\ LexLeq(Significant(d), U32MaxText)

RECURSIVE DigitsValue(_)
DigitsValue(d) ==
    IF Len(d) = 0 THEN 0
    ELSE 10 * DigitsValue(SubSeq(d, 1, Len(d) - 1)) + to_digit(d[Len(d)])

\* the integer a valid numeral denotes
UIntValue(f) == DigitsValue(Significant(DigitsOf(f)))

\* Base64 decoding (RFC 4648, padded): the bytes, or not ok
B64Value(c) == IndexOf(B64Alphabet, c) - 1

IsB64Char(c) == \E i \in 1..Len(B64Alphabet) : B64Alphabet[i] = c

RECURSIVE B64DecodeFrom(_, _)
B64DecodeFrom(s, i) ==
    IF i > Len(s) THEN [ok |-> TRUE, bytes |-> <<>>]
    ELSE IF i + 3 > Len(s) \/ ~IsB64Char(s[i]) \/ ~IsB64Char(s[i + 1])
         THEN [ok |-> FALSE, bytes |-> <<>>]
    ELSE LET v1 == B64Value(s[i])
             v2 == B64Value(s[i + 1])
             b1 == v1 * 4 + (v2 \div 16)
         IN
         IF s[i + 2] = "=" THEN
            [ok |-> s[i + 3] = "=" /\ i + 3 = Len(s) /\ v2 % 16 = 0,
             bytes |-> <<b1>>]
         ELSE IF ~IsB64Char(s[i + 2]) THEN [ok |-> FALSE, bytes |-> <<>>]
         ELSE LET v3 == B64Value(s[i + 2])
                  b2 == (v2 % 16) * 16 + (v3 \div 4)
              IN
              IF s[i + 3] = "=" THEN
                 [ok |-> i + 3 = Len(s) /\ v3 % 4 = 0, bytes |-> <<b1, b2>>]
              ELSE IF ~IsB64Char(s[i + 3]) THEN [ok |-> FALSE, bytes |-> <<>>]
              ELSE LET rest == B64DecodeFrom(s, i + 4)
                       b3 == (v3 % 4) * 64 + B64Value(s[i + 3])
                   IN  [ok |-> rest.ok, bytes |-> <<b1, b2, b3>> \o rest.bytes]

B64Decode(s) == B64DecodeFrom(s, 1)

\* parse_lockfile has read the lockfile and has ended
Parsed == pc = "done" /\ contents.read

\* the second and the third field are valid unsigned integers
NumbersValid(text) ==
    /\ ValidU32Text(Field(text, 2))
    /\ ValidU32Text(Field(text, 3))

IsErr(r, e) == r.kind = "Err" /\ r.err = e

\* every external command of the platform was started and waited for
AllReaped ==
    /\ Len(cmds) = (IF os = "windows" THEN 1 ELSE 2)
    /\ \A i \in 1..Len(cmds) : cmds[i].status # Unreaped

\* some external command exited with a failure status
SomeFailedExit == \E i \in 1..Len(cmds) : cmds[i].status \notin {0, Unreaped}

\* the descriptors that differ from d in exactly one field
SingleFieldChanges(d) ==
    {[d EXCEPT !.process = Append(@, "x")],
     [d EXCEPT !.pid = @ + 1],
     [d EXCEPT !.port = @ + 1],
     [d EXCEPT !.password = Append(@, "x")],
     [d EXCEPT !.protocol = Append(@, "x")],
     [d EXCEPT !.username = Append(@, "x")],
     [d EXCEPT !.address = Append(@, "x")],
     [d EXCEPT !.b64_auth = Append(@, "x")]}

(***************************************************************************)
(* Properties                                                              *)
(***************************************************************************)
\* C1: a lockfile of fewer than five ':'-separated segments makes
\* parse_lockfile return a NumberParse error; it does not panic.
C1_FewSegmentsIsParseError ==
    (Parsed /\ NumFields(contents.text) < 5) => IsErr(result, "NumberParse")

\* C2: on an operating system other than windows and macos the call returns
\* an unsupported-platform error, with no external command started; it does
\* not panic.
C2_UnsupportedIsError ==
    (pc = "done" /\ os \notin {"windows", "macos"}) =>
        (IsErr(result, "UnsupportedPlatform") /\ cmds = <<>>)

\* C3: every descriptor parse_lockfile returns has port > 0.
C3_PortPositive ==
    (Parsed /\ result.kind = "Ok") => result.val.port > 0

\* C4: a lockfile of exactly five fields whose second and third fields are
\* valid unsigned integers parses into a descriptor with pid and port the
\* values of those fields, process, password and protocol the first, fourth
\* and fifth fields, username "riot" and address "127.0.0.1".
C4_FiveFieldsParse ==
    (Parsed /\ NumFields(contents.text) = 5 /\ NumbersValid(contents.text)) =>
        /\ result.kind = "Ok"
        /\ result.val.pid = UIntValue(Field(contents.text, 2))
        /\ result.val.port = UIntValue(Field(contents.text, 3))
        /\ result.val.process = Field(contents.text, 1)
        /\ result.val.password = Field(contents.text, 4)
        /\ result.val.protocol = Field(contents.text, 5)
        /\ result.val.username = Riot
        /\ result.val.address = Localhost

C4_Witness ==
    /\ Parsed
    /\ NumFields(contents.text) = 5
    /\ NumbersValid(contents.text)
    /\ Field(contents.text, 2) = <<"+", "7">>
    /\ result.kind = "Ok"
    /\ result.val.pid = 7

\* C5: a pid field that is not a valid unsigned integer gives the error
\* NumberParse named "pid"; a valid pid field followed by a port field that
\* is not a valid unsigned integer gives NumberParse named "port"; no
\* descriptor is returned in either case.
C5_NumberParseNamesField ==
    Parsed =>
        /\ (NumFields(contents.text) >= 2
            /\ ~ValidU32Text(Field(contents.text, 2)))
               => result = Err("NumberParse", "pid")
        /\ (NumFields(contents.text) >= 3
            /\ ValidU32Text(Field(contents.text, 2))
            /\ ~ValidU32Text(Field(contents.text, 3)))
               => result = Err("NumberParse", "port")

C5_Witness ==
    /\ Parsed
    /\ NumFields(contents.text) >= 3
    /\ ValidU32Text(Field(contents.text, 2))
    /\ Field(contents.text, 3) = <<"4", "2", "9", "4", "9", "6", "7", "2", "9", "6">>
    /\ result = Err("NumberParse", "port")

\* C6: get_path never succeeds with an empty path.
C6_PathNeverEmpty ==
    /\ (pc = "done" /\ entry = "get_path" /\ result.kind = "Ok")
           => Len(result.val) > 0
    /\ pc = "read" => Len(path) > 0

\* C7: an external command that starts and exits with a failure status makes
\* get_path return the GetRawPath error.
C7_FailedExitIsGetRawPath ==
    (pc = "done" /\ entry = "get_path" /\ SomeFailedExit)
        => IsErr(result, "GetRawPath")

\* C7, amended: the exit status of an external command is not looked at.
\* GetRawPath is returned only when a command could not be started or waited
\* for, and always when none was started; once every command was started and
\* waited for, whatever its exit status, the call goes on to decode and scan
\* the output.
C7_ExitStatusIgnored ==
    /\ AllReaped => ~IsErr(result, "GetRawPath")
    /\ (pc = "done" /\ os \in {"windows", "macos"} /\ cmds = <<>>)
           => IsErr(result, "GetRawPath")

C7_Witness ==
    /\ pc = "done"
    /\ entry = "get_path"
    /\ AllReaped
    /\ SomeFailedExit
    /\ result.kind = "Ok"

\* C8: b64_auth of a returned descriptor is the standard Base64 encoding of
\* "riot:" followed by the password, the fourth field of the lockfile:
\* decoding it gives back exactly those bytes.
C8_AuthDecodes ==
    (Parsed /\ result.kind = "Ok") =>
        /\ B64Decode(result.val.b64_auth).ok
        /\ B64Decode(result.val.b64_auth).bytes =
               as_bytes(<<"r", "i", "o", "t", ":">> \o Field(contents.text, 4))
        /\ contents.text = DocLockfile => result.val.b64_auth = DocAuth

C8_Witness ==
    /\ Parsed
    /\ result.kind = "Ok"
    /\ Field(contents.text, 4) = <<"p", "w">>
    /\ result.val.b64_auth[Len(result.val.b64_auth)] = "="

\* C9: descriptor equality is structural over all eight fields: two calls
\* that read the same lockfile text return equal descriptors, and two
\* descriptors that differ in a single field are unequal.
C9_StructuralEquality ==
    /\ (entry = "equality" /\ call = 2 /\ text1 = text2)
           => pc = "test_passed"
    /\ entry \in UnitTestNames => pc = "test_passed"
    /\ (Parsed /\ result.kind = "Ok") =>
           /\ RiotLockFile_eq(result.val, result.val)
           /\ \A d \in SingleFieldChanges(result.val) :
                  ~RiotLockFile_eq(result.val, d)

C9_Witness ==
    /\ entry = "equality"
    /\ call = 2
    /\ text1 = text2
    /\ pc = "test_passed"
    /\ lockfile1 = lockfile2
    /\ lockfile1.port > 0

\* C10: with more than five segments and valid second and third segments,
\* parse_lockfile succeeds from the first five segments alone: password is
\* the fourth, protocol the fifth, and the segments from the sixth on change
\* nothing in the descriptor.
C10_ExtraSegmentsIgnored ==
    (Parsed /\ NumFields(contents.text) > 5 /\ NumbersValid(contents.text)) =>
        /\ result.kind = "Ok"
        /\ result.val.password = Field(contents.text, 4)
        /\ result.val.protocol = Field(contents.text, 5)
        /\ result = parse_pieces(UpToField(contents.text, 5))

C10_Witness ==
    /\ Parsed
    /\ NumFields(contents.text) > 5
    /\ Field(contents.text, 6) = <<"x">>
    /\ result.kind = "Ok"
    /\ result.val.protocol = <<"h", "t", "t", "p", "s">>

====
